---- MODULE Spec2Model ----
(***************************************************************************)
(* JEPA world model (src/models.py) with its two training entry points     *)
(* (src/main.py, src/train.py) and their loss functions.                   *)
(*                                                                         *)
(* Numbers are fixed point in tenths: 10 stands for 1.0, 18 for 1.8, and   *)
(* a product of two such numbers is divided by 10.  A tensor is collapsed  *)
(* to one scalar per parameter tensor, a batch to one trajectory.          *)
(***************************************************************************)
EXTENDS Integers, Sequences, FiniteSets

VARIABLES
    constructed,     \* JEPAModel.__init__ has returned
    online_encoder,  \* self.online_encoder parameters, <<weight, bias>>
    target_encoder,  \* self.target_encoder parameters, <<weight, bias>>
    predictor,       \* self.predictor parameters, <<w_repr, w_action, w_out>>
    momentum,        \* self.momentum, in thousandths
    requires_grad,   \* [group -> BOOLEAN]: param.requires_grad of the group
    grad,            \* [group -> tuple]: param.grad, <<>> standing for None
    graph,           \* groups recorded by autograd in the last forward pass
    states,          \* frames given to the last forward pass
    actions,         \* actions given to the last forward pass
    predictions,     \* its result
    encCalls,        \* frame indices the online encoder was applied to by it
    targets,         \* the target encoder's latents of the last training batch
    lastOp,          \* [name, tau]: the last operation performed
    err,             \* the exception the last operation ended in, or "none"
    nOps,            \* operations performed since construction
    entry,           \* the entry point run: "train_model" (main.py), "train"
    pc,              \* where the entry point is
    invoked,         \* attribute names the entry point has read on the model
    numEpochs,       \* num_epochs (main.py) / epochs (train.py)
    loaderLen,       \* batches the data loader yields per epoch
    epoch,           \* epochs completed
    fetched,         \* batches fetched from the loader, over all epochs
    stepCount,       \* optimizer.step() calls performed
    syncCount,       \* target encoder syncs performed
    epoch_loss,      \* train.py: sum of the epoch's batch losses
    num_batches,     \* train.py: batches accounted in the epoch
    avg_epoch_loss,  \* train.py: <<epoch_loss, num_batches>>, their quotient
    best_loss,       \* train.py: a quotient <<p, q>>; <<1, 0>> is float('inf')
    avgs,            \* the avg_epoch_loss of every completed epoch, in order
    saves,           \* epochs in which the loop wrote model_weights.pth
    reachedSave,     \* the step after the epoch loop was reached
    savedFinal,      \* that step wrote the model
    call,            \* a function call: [fn, args]
    result           \* its outcome: [status, value]

modelVars == <<constructed, online_encoder, target_encoder, predictor,
               momentum, requires_grad, grad>>
harnessVars == <<graph, states, actions, predictions, encCalls, targets,
                 lastOp, nOps>>
runVars == <<entry, pc, invoked, numEpochs, loaderLen, epoch, fetched,
             stepCount, syncCount, epoch_loss, num_batches, avg_epoch_loss,
             best_loss, avgs, saves, reachedSave, savedFinal>>
fnVars == <<call, result>>

----------------------------------------------------------------------------
(* Bounds *)

MaxT == 3          \* longest trajectory given to forward
MaxOps == 3        \* operations performed on a constructed model
MaxEpochs == 2     \* largest configured epoch count of train
MaxBatches == 2    \* most batches the loader yields per epoch
MaxN == 3          \* largest square matrix given to off_diagonal
MaxBatch == 2      \* largest batch size N given to vicreg_loss
MaxSteps == 2      \* largest time dimension T' given to je_loss

(* Values parameters and inputs are drawn from (tenths). *)
EncoderInits == {<<0, 10>>, <<20, 0>>, <<10, 10>>}
PredictorInits == {<<10, 10, 10>>, <<20, -10, 5>>}
FrameVals == {0, 10}
ActionVals == {5, 10}
GradVals == {-10, 20}
Taus == {5, 9, 10}
LossVals == {5, 10}

Groups == {"online_encoder", "target_encoder", "predictor"}

----------------------------------------------------------------------------
(* Networks *)

ReLU(x) == IF x > 0 THEN x ELSE 0

(* Encoder.forward: conv_net then fc, both ending in ReLU. *)
Encoder(p, x) == ReLU(ReLU((p[1] * x) \div 10) + p[2])

(* Predictor.forward: Linear over cat([repr, action]), ReLU, Linear. *)
Predictor(p, repr, action) ==
    (p[3] * ReLU((p[1] * repr + p[2] * action) \div 10)) \div 10

(* JEPAModel._update_target_encoder, the first k pairs of its loop:        *)
(* param_t.data = param_t.data * tau + param_o.data * (1 - tau).           *)
EmaPair(param_t, param_o, tau) == (param_t * tau + param_o * (10 - tau)) \div 10

Min(a, b) == IF a < b THEN a ELSE b

(* The loop pairing the parameters in opposite orders. *)
UpdateTargetEncoderMispaired(onl, tgt, tau, k) ==
    [i \in 1..Min(Len(onl), Len(tgt)) |->
        IF i <= k THEN EmaPair(tgt[i], onl[Len(onl) + 1 - i], tau) ELSE tgt[i]]

UpdateTargetEncoderUpTo(onl, tgt, tau, k) ==
    [i \in 1..Min(Len(onl), Len(tgt)) |->
        IF i <= k THEN EmaPair(tgt[i], onl[i], tau) ELSE tgt[i]]

UpdateTargetEncoder(onl, tgt, tau) ==
    UpdateTargetEncoderUpTo(onl, tgt, tau, Min(Len(onl), Len(tgt)))

(* requires_grad were the constructor's last loop missing. *)
InitRequiresGradAll == [g \in Groups |-> TRUE]

(* requires_grad after JEPAModel.__init__: nn.Parameter defaults to True,  *)
(* the constructor's last loop clears it on the target encoder.            *)
InitRequiresGrad == [g \in Groups |-> g # "target_encoder"]

NoGrad == [g \in Groups |-> <<>>]

(* JEPAModel.__init__ on two separately created encoders o, t, a created   *)
(* predictor p and momentum m.                                             *)
JEPAModelInit(o, t, p, m) ==
    /\ constructed' = TRUE
    /\ online_encoder' = o
    /\ target_encoder' = UpdateTargetEncoder(o, t, 10)
    /\ predictor' = p
    /\ momentum' = m
    /\ requires_grad' = InitRequiresGrad
    /\ grad' = NoGrad

(* JEPAModel.forward: the loop over t in range(T - 1), from step t on. *)
RECURSIVE ForwardLoop(_, _, _, _)
ForwardLoop(p, current_repr, acts, t) ==
    IF t > Len(acts) THEN <<>>
    ELSE LET pred_repr == Predictor(p, current_repr, acts[t])
         IN  <<pred_repr>> \o ForwardLoop(p, pred_repr, acts, t + 1)

(* A rollout that re-encodes the observed frame at every step. *)
JEPAForwardTeacherForced(onl, p, sts, acts) ==
    [predictions |->
        [k \in 1..Len(sts) |->
            IF k = 1 THEN Encoder(onl, sts[1])
            ELSE Predictor(p, Encoder(onl, sts[k - 1]), acts[k - 1])],
     encoded |-> [k \in 1..(IF Len(sts) > 1 THEN Len(sts) - 1 ELSE 1) |-> k]]

(* JEPAModel.forward: the predictions, and the frames it encoded. *)
JEPAForward(onl, p, sts, acts) ==
    LET T == Len(sts)
        current_repr == Encoder(onl, sts[1])
    IN  [predictions |-> <<current_repr>>
                           \o ForwardLoop(p, current_repr, SubSeq(acts, 1, T - 1), 1),
         encoded |-> <<1>>]

(* JEPAModel.get_target_representations: the target encoder on every frame. *)
GetTargetRepresentations(tgt, sts) ==
    [i \in 1..Len(sts) |-> Encoder(tgt, sts[i])]

Trajectories ==
    UNION {[1..T -> FrameVals] : T \in 1..MaxT}

ActionSeqs(T) == [1..(T - 1) -> ActionVals]

(* The batches the training data loader yields: states of T frames with    *)
(* T - 1 actions.                                                          *)
LoaderBatches ==
    {[states |-> [i \in 1..T |-> f], actions |-> [i \in 1..(T - 1) |-> a]] :
        T \in 1..MaxT, f \in FrameVals, a \in ActionVals}

----------------------------------------------------------------------------
(* Autograd and the optimizer, as train.py drives them *)

ISqrt(n) == CHOOSE r \in 0..n : r * r <= n /\ n < (r + 1) * (r + 1)

RECURSIVE SumSq(_)
SumSq(s) == IF s = <<>> THEN 0 ELSE Head(s) * Head(s) + SumSq(Tail(s))

(* loss.backward(): every group recorded in the graph whose parameters     *)
(* require grad accumulates the gradient g[group] into param.grad.         *)
Accumulate(old, new) ==
    IF old = <<>> THEN new ELSE [i \in 1..Len(new) |-> old[i] + new[i]]

BackwardGrads(gr, rg, old, g) ==
    [grp \in Groups |->
        IF grp \in gr /\ rg[grp] THEN Accumulate(old[grp], g[grp]) ELSE old[grp]]

(* torch.nn.utils.clip_grad_norm_(model.parameters(), 1.0): the gradients  *)
(* that exist are scaled by min(1, 1.0 / total_norm).                      *)
ClipGradNorm(g) ==
    LET total_norm == ISqrt(SumSq(g["online_encoder"]) + SumSq(g["target_encoder"])
                            + SumSq(g["predictor"]))
        clip_coef == IF total_norm > 10 THEN 100 \div total_norm ELSE 10
    IN  [grp \in Groups |->
            [i \in 1..Len(g[grp]) |-> (g[grp][i] * clip_coef) \div 10]]

(* optimizer.step() of Adam(model.parameters()): a parameter whose grad is *)
(* None is skipped, every other one moves against its gradient.            *)
OptimizerStep(p, g) ==
    IF g = <<>> THEN p ELSE [i \in 1..Len(p) |-> p[i] - g[i]]

GradTensor(grp, v) ==
    [i \in 1..(IF grp = "predictor" THEN 3 ELSE 2) |-> v]

----------------------------------------------------------------------------
(* Operations on a JEPAModel *)

Op(name, tau) == [name |-> name, tau |-> tau]

Construct ==
    /\ UNCHANGED <<runVars, fnVars>>
    /\ ~constructed
    /\ \E o \in EncoderInits, t \in EncoderInits, p \in PredictorInits :
          JEPAModelInit(o, t, p, 990)
    /\ lastOp' = Op("construct", 10)
    /\ err' = "none"
    /\ UNCHANGED <<graph, states, actions, predictions, encCalls, targets, nOps>>

Ready == constructed /\ nOps < MaxOps

Forward ==
    /\ UNCHANGED <<runVars, fnVars>>
    /\ Ready
    /\ \E sts \in Trajectories : \E acts \in ActionSeqs(Len(sts)) :
          LET out == JEPAForward(online_encoder, predictor, sts, acts)
          IN  /\ states' = sts
              /\ actions' = acts
              /\ predictions' = out.predictions
              /\ encCalls' = out.encoded
              /\ graph' = {"online_encoder"}
                           \cup (IF Len(sts) > 1 THEN {"predictor"} ELSE {})
    /\ lastOp' = Op("forward", 0)
    /\ err' = "none"
    /\ nOps' = nOps + 1
    /\ UNCHANGED <<modelVars, targets>>

(* One batch of train_model's loop up to the loss: predictions =          *)
(* model(states, actions), then the targets from the target encoder under  *)
(* torch.no_grad(), which records nothing in the graph.                    *)
TrainForward ==
    /\ UNCHANGED <<runVars, fnVars>>
    /\ Ready
    /\ \E batch \in LoaderBatches :
          LET out == JEPAForward(online_encoder, predictor, batch.states, batch.actions)
          IN  /\ states' = batch.states
              /\ actions' = batch.actions
              /\ predictions' = out.predictions
              /\ encCalls' = out.encoded
              /\ targets' = GetTargetRepresentations(target_encoder, batch.states)
              /\ graph' = {"online_encoder"}
                           \cup (IF Len(batch.states) > 1 THEN {"predictor"} ELSE {})
    /\ lastOp' = Op("train_forward", 0)
    /\ err' = "none"
    /\ nOps' = nOps + 1
    /\ UNCHANGED modelVars

Backward ==
    /\ UNCHANGED <<runVars, fnVars>>
    /\ Ready
    /\ graph # {}
    /\ \E vo \in GradVals, vp \in GradVals :
          grad' = BackwardGrads(graph, requires_grad, grad,
                                [grp \in Groups |->
                                    GradTensor(grp, IF grp = "predictor" THEN vp ELSE vo)])
    /\ graph' = {}
    /\ lastOp' = Op("backward", 0)
    /\ err' = "none"
    /\ nOps' = nOps + 1
    /\ UNCHANGED <<constructed, online_encoder, target_encoder, predictor,
                   momentum, requires_grad, states, actions, predictions,
                   encCalls, targets>>

ZeroGrad ==
    /\ UNCHANGED <<runVars, fnVars>>
    /\ Ready
    /\ grad' = NoGrad
    /\ lastOp' = Op("zero_grad", 0)
    /\ err' = "none"
    /\ nOps' = nOps + 1
    /\ UNCHANGED <<constructed, online_encoder, target_encoder, predictor,
                   momentum, requires_grad, graph, states, actions,
                   predictions, encCalls, targets>>

ClipGrad ==
    /\ UNCHANGED <<runVars, fnVars>>
    /\ Ready
    /\ grad' = ClipGradNorm(grad)
    /\ lastOp' = Op("clip_grad_norm_", 0)
    /\ err' = "none"
    /\ nOps' = nOps + 1
    /\ UNCHANGED <<constructed, online_encoder, target_encoder, predictor,
                   momentum, requires_grad, graph, states, actions,
                   predictions, encCalls, targets>>

Step ==
    /\ UNCHANGED <<runVars, fnVars>>
    /\ Ready
    /\ online_encoder' = OptimizerStep(online_encoder, grad["online_encoder"])
    /\ target_encoder' = OptimizerStep(target_encoder, grad["target_encoder"])
    /\ predictor' = OptimizerStep(predictor, grad["predictor"])
    /\ lastOp' = Op("step", 0)
    /\ err' = "none"
    /\ nOps' = nOps + 1
    /\ UNCHANGED <<constructed, momentum, requires_grad, grad, graph, states,
                   actions, predictions, encCalls, targets>>

(* A call of _update_target_encoder(tau) that returns. *)
Sync ==
    /\ UNCHANGED <<runVars, fnVars>>
    /\ Ready
    /\ \E tau \in Taus :
          /\ target_encoder' = UpdateTargetEncoder(online_encoder, target_encoder, tau)
          /\ lastOp' = Op("_update_target_encoder", tau)
    /\ err' = "none"
    /\ nOps' = nOps + 1
    /\ UNCHANGED <<constructed, online_encoder, predictor, momentum,
                   requires_grad, grad, graph, states, actions, predictions,
                   encCalls, targets>>

(* A call of _update_target_encoder(tau) that a KeyboardInterrupt ends     *)
(* after k passes of its loop.                                             *)
SyncInterrupted ==
    /\ UNCHANGED <<runVars, fnVars>>
    /\ Ready
    /\ \E tau \in Taus, k \in 0..(Len(target_encoder) - 1) :
          /\ target_encoder' =
                UpdateTargetEncoderUpTo(online_encoder, target_encoder, tau, k)
          /\ lastOp' = Op("_update_target_encoder", tau)
    /\ err' = "KeyboardInterrupt"
    /\ nOps' = nOps + 1
    /\ UNCHANGED <<constructed, online_encoder, predictor, momentum,
                   requires_grad, grad, graph, states, actions, predictions,
                   encCalls, targets>>

(* model.apply(init_weights) of main.py: init_weights reads the name nn,   *)
(* which main.py never binds, on the first module it is applied to.        *)
MainModuleNames == {"create_wall_dataloader", "ProbingEvaluator", "torch",
                    "JEPAModel", "glob", "tqdm", "F"}

ApplyInitWeights ==
    /\ UNCHANGED <<runVars, fnVars>>
    /\ Ready
    /\ "nn" \notin MainModuleNames
    /\ err' = "NameError"
    /\ lastOp' = Op("apply", 0)
    /\ nOps' = nOps + 1
    /\ UNCHANGED <<modelVars, graph, states, actions, predictions, encCalls,
                   targets>>

----------------------------------------------------------------------------
(* A JEPAModel under any sequence of its operations *)

vars == <<modelVars, harnessVars, err, runVars, fnVars>>

NoRun ==
    /\ entry = "none"
    /\ pc = "none"
    /\ invoked = {}
    /\ numEpochs = 0
    /\ loaderLen = 0
    /\ epoch = 0
    /\ fetched = 0
    /\ stepCount = 0
    /\ syncCount = 0
    /\ epoch_loss = 0
    /\ num_batches = 0
    /\ avg_epoch_loss = <<0, 0>>
    /\ best_loss = <<1, 0>>
    /\ avgs = <<>>
    /\ saves = {}
    /\ reachedSave = FALSE
    /\ savedFinal = FALSE

NoCall ==
    /\ call = [fn |-> "none", args |-> <<>>]
    /\ result = [status |-> "none", value |-> <<>>]

NoModel ==
    /\ constructed = FALSE
    /\ online_encoder = <<>>
    /\ target_encoder = <<>>
    /\ predictor = <<>>
    /\ momentum = 0
    /\ requires_grad = [g \in Groups |-> FALSE]
    /\ grad = NoGrad

NoHarness ==
    /\ graph = {}
    /\ states = <<>>
    /\ actions = <<>>
    /\ predictions = <<>>
    /\ encCalls = <<>>
    /\ targets = <<>>
    /\ lastOp = Op("none", 0)
    /\ nOps = 0

Init ==
    /\ NoModel
    /\ NoHarness
    /\ NoRun
    /\ NoCall
    /\ err = "none"

Next ==
    \/ Construct
    \/ TrainForward
    \/ Backward
    \/ ZeroGrad
    \/ ClipGrad
    \/ Step
    \/ Sync
    \/ SyncInterrupted
    \/ ApplyInitWeights

Spec == Init /\ [][Next]_vars

(* JEPAModel.forward on any trajectory *)
NextForward ==
    \/ Construct
    \/ Forward

SpecForward == Init /\ [][NextForward]_vars

----------------------------------------------------------------------------
(* The training entry points: train_model (main.py) and train (train.py) *)

(* Attributes a JEPAModel instance has: those __init__ and the class body  *)
(* set, and those of nn.Module the entry points use.                       *)
JEPAModelAttrs ==
    {"device", "repr_dim", "action_dim", "momentum", "online_encoder",
     "target_encoder", "predictor", "_update_target_encoder", "forward",
     "get_target_representations",
     "to", "apply", "parameters", "train", "state_dict", "load_state_dict"}

(* Quotients <<p, q>> with q >= 0, compared as p/q; <<1, 0>> is infinity. *)
Less(a, b) == a[1] * b[2] < b[1] * a[2]

(* The comparison admitting ties. *)
ImprovesOrTies(avg, best) == ~Less(best, avg)

(* train.py: if avg_epoch_loss < best_loss *)
Improves(avg, best) == Less(avg, best)

(* train.py: if final_loss < best_loss *)
FinalBetter(final, best) == Less(final, best)

RunInit ==
    /\ pc = "start"
    /\ invoked = {}
    /\ loaderLen \in 0..MaxBatches
    /\ \/ entry = "train_model" /\ numEpochs = 10
       \/ entry = "train" /\ numEpochs \in 1..MaxEpochs
    /\ epoch = 0
    /\ fetched = 0
    /\ stepCount = 0
    /\ syncCount = 0
    /\ epoch_loss = 0
    /\ num_batches = 0
    /\ avg_epoch_loss = <<0, 0>>
    /\ best_loss = <<1, 0>>
    /\ avgs = <<>>
    /\ saves = {}
    /\ reachedSave = FALSE
    /\ savedFinal = FALSE

(* train_model up to model.to(device). *)
MainSetup ==
    /\ entry = "train_model"
    /\ pc = "start"
    /\ \E o \in EncoderInits, t \in EncoderInits, p \in PredictorInits :
          JEPAModelInit(o, t, p, 996)
    /\ invoked' = invoked \cup {"to"}
    /\ pc' = "apply"
    /\ UNCHANGED <<harnessVars, err, fnVars, entry, numEpochs, loaderLen,
                   epoch, fetched, stepCount, syncCount, epoch_loss,
                   num_batches, avg_epoch_loss, best_loss, avgs, saves,
                   reachedSave, savedFinal>>

(* train_model: model.apply(init_weights).  init_weights reads the name    *)
(* nn on the first module it is given; main.py does not bind it.           *)
MainApplyInitWeights ==
    /\ entry = "train_model"
    /\ pc = "apply"
    /\ invoked' = invoked \cup {"apply"}
    /\ "nn" \notin MainModuleNames
    /\ err' = "NameError"
    /\ pc' = "terminated"
    /\ UNCHANGED <<modelVars, harnessVars, fnVars, entry, numEpochs,
                   loaderLen, epoch, fetched, stepCount, syncCount,
                   epoch_loss, num_batches, avg_epoch_loss, best_loss, avgs,
                   saves, reachedSave, savedFinal>>

(* train up to model.train(): the model, Adam over model.parameters(), the *)
(* scheduler, the loader, best_loss = float('inf').                        *)
TrainSetup ==
    /\ entry = "train"
    /\ pc = "start"
    /\ \E o \in EncoderInits, t \in EncoderInits, p \in PredictorInits :
          JEPAModelInit(o, t, p, 990)
    /\ invoked' = invoked \cup {"to", "parameters", "train"}
    /\ best_loss' = <<1, 0>>
    /\ pc' = "epoch"
    /\ UNCHANGED <<harnessVars, err, fnVars, entry, numEpochs, loaderLen,
                   epoch, fetched, stepCount, syncCount, epoch_loss,
                   num_batches, avg_epoch_loss, avgs, saves, reachedSave,
                   savedFinal>>

(* train: the head of the epoch loop. *)
TrainEpochBegin ==
    /\ entry = "train"
    /\ pc = "epoch"
    /\ epoch < numEpochs
    /\ epoch_loss' = 0
    /\ num_batches' = 0
    /\ pc' = "batch"
    /\ UNCHANGED <<modelVars, harnessVars, err, fnVars, entry, invoked,
                   numEpochs, loaderLen, epoch, fetched, stepCount, syncCount,
                   avg_epoch_loss, best_loss, avgs, saves, reachedSave,
                   savedFinal>>

(* train: one pass of the batch loop.  Its first use of the model is       *)
(* model.encoder, an attribute JEPAModel does not have.                    *)
TrainBatch ==
    /\ entry = "train"
    /\ pc = "batch"
    /\ num_batches < loaderLen
    /\ fetched' = fetched + 1
    /\ invoked' = invoked \cup {"encoder"}
    /\ "encoder" \notin JEPAModelAttrs
    /\ err' = "AttributeError"
    /\ pc' = "terminated"
    /\ UNCHANGED <<modelVars, harnessVars, fnVars, entry, numEpochs,
                   loaderLen, epoch, stepCount, syncCount, epoch_loss,
                   num_batches, avg_epoch_loss, best_loss, avgs, saves,
                   reachedSave, savedFinal>>

(* train: the accounting of a batch whose loss value is l                  *)
(* (epoch_loss += loss.item(); num_batches += 1).                          *)
TrainBatchLoss ==
    /\ entry = "train"
    /\ pc = "batch"
    /\ num_batches < loaderLen
    /\ \E l \in LossVals : epoch_loss' = epoch_loss + l
    /\ num_batches' = num_batches + 1
    /\ fetched' = fetched + 1
    /\ UNCHANGED <<modelVars, harnessVars, err, fnVars, entry, pc, invoked,
                   numEpochs, loaderLen, epoch, stepCount, syncCount,
                   avg_epoch_loss, best_loss, avgs, saves, reachedSave,
                   savedFinal>>

(* train: after the batch loop: the average, the best-model checkpoint,    *)
(* scheduler.step().                                                       *)
TrainEpochEnd ==
    /\ entry = "train"
    /\ pc = "batch"
    /\ num_batches = loaderLen
    /\ IF num_batches = 0
       THEN /\ err' = "ZeroDivisionError"
            /\ pc' = "terminated"
            /\ UNCHANGED <<avg_epoch_loss, best_loss, avgs, saves, epoch>>
       ELSE LET avg == <<epoch_loss, num_batches>>
            IN  /\ avg_epoch_loss' = avg
                /\ best_loss' = IF Improves(avg, best_loss) THEN avg ELSE best_loss
                /\ saves' = IF Improves(avg, best_loss)
                             THEN saves \cup {epoch + 1} ELSE saves
                /\ avgs' = Append(avgs, avg)
                /\ epoch' = epoch + 1
                /\ pc' = "epoch"
                /\ err' = err
    /\ UNCHANGED <<modelVars, harnessVars, fnVars, entry, invoked, numEpochs,
                   loaderLen, fetched, stepCount, syncCount, epoch_loss,
                   num_batches, reachedSave, savedFinal>>

(* train: after the epoch loop: save the final model only if it is better  *)
(* than the best one.                                                      *)
TrainPostLoop ==
    /\ entry = "train"
    /\ pc = "epoch"
    /\ epoch = numEpochs
    /\ LET final_loss == avg_epoch_loss
       IN  savedFinal' = FinalBetter(final_loss, best_loss)
    /\ reachedSave' = TRUE
    /\ pc' = "terminated"
    /\ UNCHANGED <<modelVars, harnessVars, err, fnVars, entry, invoked,
                   numEpochs, loaderLen, epoch, fetched, stepCount, syncCount,
                   epoch_loss, num_batches, avg_epoch_loss, best_loss, avgs,
                   saves>>

InitEntry ==
    /\ NoModel
    /\ NoHarness
    /\ NoCall
    /\ err = "none"
    /\ entry \in {"train_model", "train"}
    /\ RunInit

(* The two entry points as written. *)
NextEntry ==
    \/ MainSetup
    \/ MainApplyInitWeights
    \/ TrainSetup
    \/ TrainEpochBegin
    \/ TrainBatch
    \/ TrainEpochEnd

SpecEntry == InitEntry /\ [][NextEntry]_vars

InitCkpt ==
    /\ NoModel
    /\ NoHarness
    /\ NoCall
    /\ err = "none"
    /\ entry = "train"
    /\ RunInit

(* train's epoch loop over batches whose loss values are given. *)
NextCkpt ==
    \/ TrainSetup
    \/ TrainEpochBegin
    \/ TrainBatchLoss
    \/ TrainEpochEnd
    \/ TrainPostLoop

SpecCkpt == InitCkpt /\ [][NextCkpt]_vars

----------------------------------------------------------------------------
(* The loss functions: vicreg_loss, off_diagonal (train.py), je_loss       *)
(* (main.py).  A float is [k, v]: a finite value v in tenths, NaN or an    *)
(* infinity.                                                               *)

Fin(v) == [k |-> "fin", v |-> v]
NaN == [k |-> "nan", v |-> 0]
Inf == [k |-> "inf", v |-> 0]

Lift(a, b, r) ==
    IF a.k = "nan" \/ b.k = "nan" THEN NaN
    ELSE IF a.k = "inf" \/ b.k = "inf" THEN Inf
    ELSE Fin(r)

NAdd(a, b) == Lift(a, b, a.v + b.v)
NSub(a, b) == Lift(a, b, a.v - b.v)
NMul(a, b) == Lift(a, b, (a.v * b.v) \div 10)
NDiv(a, b) ==
    IF a.k = "nan" \/ b.k = "nan" THEN NaN
    ELSE IF b.k = "fin" /\ b.v = 0
         THEN (IF a.k = "fin" /\ a.v = 0 THEN NaN ELSE Inf)
    ELSE Lift(a, b, (a.v * 10) \div (IF b.v = 0 THEN 1 ELSE b.v))
NSqrt(a) ==
    IF a.k # "fin" THEN a
    ELSE IF a.v < 0 THEN NaN ELSE Fin(ISqrt(a.v * 10))
NRelu(a) == IF a.k = "fin" THEN Fin(ReLU(a.v)) ELSE a
NAbs(a) == IF a.k = "fin" THEN Fin(IF a.v < 0 THEN -a.v ELSE a.v) ELSE a

RECURSIVE NSum(_)
NSum(s) == IF s = <<>> THEN Fin(0) ELSE NAdd(Head(s), NSum(Tail(s)))

NMean(s) == NDiv(NSum(s), Fin(10 * Len(s)))

RECURSIVE Flatten(_)
Flatten(m) == IF m = <<>> THEN <<>> ELSE Head(m) \o Flatten(Tail(m))

(* x.flatten()[:-1].view(n-1, n+1)[:, :-1].flatten(): the last column of   *)
(* the view dropped instead of the first.                                  *)
off_diagonal_last(x) ==
    LET n == Len(x)
        flat == SubSeq(Flatten(x), 1, n * n - 1)
        view == [r \in 1..(n - 1) |-> SubSeq(flat, (r - 1) * (n + 1) + 1, r * (n + 1))]
    IN  Flatten([r \in 1..(n - 1) |-> SubSeq(view[r], 1, n)])

(* off_diagonal: x.flatten()[:-1].view(n-1, n+1)[:, 1:].flatten() *)
off_diagonal(x) ==
    LET n == Len(x)
        flat == SubSeq(Flatten(x), 1, n * n - 1)
        view == [r \in 1..(n - 1) |-> SubSeq(flat, (r - 1) * (n + 1) + 1, r * (n + 1))]
    IN  Flatten([r \in 1..(n - 1) |-> SubSeq(view[r], 2, n + 1)])

(* tensor.var(dim) of the values s along the reduced dimension (unbiased). *)
Var(s) ==
    LET m == NMean(s)
        sq == [i \in 1..Len(s) |-> NMul(NSub(s[i], m), NSub(s[i], m))]
    IN  NDiv(NSum(sq), Fin(10 * (Len(s) - 1)))

Column(x, d) == [n \in 1..Len(x) |-> Fin(x[n][d])]

(* vicreg_loss(x, y) for x, y of shape [N, D]; the 0.0001 added to the     *)
(* variance is below the precision of tenths, Fin(0).                      *)
vicreg_loss(x, y) ==
    LET N == Len(x)
        D == Len(x[1])
        sim_loss == NMean(Flatten([n \in 1..N |->
                        [d \in 1..D |-> NMul(Fin(x[n][d] - y[n][d]),
                                              Fin(x[n][d] - y[n][d]))]]))
        std(t) == [d \in 1..D |-> NSqrt(NAdd(Var(Column(t, d)), Fin(0)))]
        hinge(t) == NMean([d \in 1..D |-> NRelu(NSub(Fin(10), std(t)[d]))])
        var_loss == NAdd(hinge(x), hinge(y))
        centred(t) == [n \in 1..N |->
                         [d \in 1..D |-> NSub(Fin(t[n][d]), NMean(Column(t, d)))]]
        cov(t) == [i \in 1..D |-> [j \in 1..D |->
                      NDiv(NSum([n \in 1..N |->
                                   NMul(centred(t)[n][i], centred(t)[n][j])]),
                           Fin(10 * (N - 1)))]]
        sq(s) == [i \in 1..Len(s) |-> NMul(s[i], s[i])]
        cov_loss == NAdd(NSum(sq(off_diagonal(cov(x)))),
                         NSum(sq(off_diagonal(cov(y)))))
    IN  NAdd(sim_loss, NAdd(NMul(Fin(250), var_loss), NMul(Fin(250), cov_loss)))

(* F.normalize(v, dim=-1, p=2): v / max(||v||, eps) *)
Normalize(v) ==
    LET norm == NSqrt(NSum([d \in 1..Len(v) |-> NMul(Fin(v[d]), Fin(v[d]))]))
    IN  [d \in 1..Len(v) |->
            IF norm.k = "fin" /\ norm.v = 0 THEN Fin(0) ELSE NDiv(Fin(v[d]), norm)]

(* je_loss(predictions, targets) for one trajectory: shape [T, D] *)
je_loss(preds, tgts) ==
    LET T == Len(preds)
        D == Len(preds[1])
        p == [t \in 1..T |-> Normalize(preds[t])]
        q == [t \in 1..T |-> Normalize(tgts[t])]
        pos_cos_sim == [t \in 1..T |-> NSum([d \in 1..D |-> NMul(p[t][d], q[t][d])])]
        loss == NMul(Fin(20), NMean([t \in 1..T |-> NSub(Fin(10), pos_cos_sim[t])]))
        std(z) == NMean([d \in 1..D |-> NSqrt(Var([t \in 1..T |-> z[t][d]]))])
        std_reg == NMul(Fin(1), NAdd(NAbs(NSub(Fin(10), std(p))),
                                     NAbs(NSub(Fin(10), std(q)))))
    IN  NAdd(loss, std_reg)

Matrices(rows, cols, vals) == [1..rows -> [1..cols -> vals]]

OffDiagonalCalls ==
    {[fn |-> "off_diagonal", args |-> <<x>>] :
        x \in UNION {Matrices(n, n, {0, 1}) : n \in 1..MaxN}}

VicregCalls ==
    {[fn |-> "vicreg_loss", args |-> <<xy[1], xy[2]>>] :
        xy \in UNION {Matrices(n, 2, {0, 10}) \X Matrices(n, 2, {0, 10}) :
                        n \in 1..MaxBatch}}

JeLossCalls ==
    {[fn |-> "je_loss", args |-> <<pt[1], pt[2]>>] :
        pt \in UNION {Matrices(t, 2, {0, 10}) \X Matrices(t, 2, {0, 10}) :
                        t \in 1..MaxSteps}}

Returned(v) == [status |-> "returned", value |-> v]

CallOffDiagonal ==
    /\ call.fn = "off_diagonal"
    /\ result.status = "pending"
    /\ result' = Returned(off_diagonal(call.args[1]))
    /\ UNCHANGED <<modelVars, harnessVars, err, runVars, call>>

CallVicregLoss ==
    /\ call.fn = "vicreg_loss"
    /\ result.status = "pending"
    /\ result' = Returned(vicreg_loss(call.args[1], call.args[2]))
    /\ UNCHANGED <<modelVars, harnessVars, err, runVars, call>>

CallJeLoss ==
    /\ call.fn = "je_loss"
    /\ result.status = "pending"
    /\ result' = Returned(je_loss(call.args[1], call.args[2]))
    /\ UNCHANGED <<modelVars, harnessVars, err, runVars, call>>

InitFn ==
    /\ NoModel
    /\ NoHarness
    /\ NoRun
    /\ err = "none"
    /\ call \in OffDiagonalCalls \cup VicregCalls \cup JeLossCalls
    /\ result = [status |-> "pending", value |-> <<>>]

NextFn ==
    \/ CallOffDiagonal
    \/ CallVicregLoss
    \/ CallJeLoss

SpecFn == InitFn /\ [][NextFn]_vars

----------------------------------------------------------------------------
(* Properties of the model object *)

(* C1: immediately after JEPAModel construction every target encoder       *)
(* parameter equals the corresponding online encoder parameter, whatever   *)
(* values the two encoders were created with.                              *)
C1_TargetEqualsOnlineAfterConstruction ==
    lastOp.name = "construct" => target_encoder = online_encoder

(* k applications of the predictor to the initial encoding, with actions   *)
(* 1..k in order.                                                          *)
RECURSIVE Unroll(_, _, _, _, _)
Unroll(onl, p, sts, acts, k) ==
    IF k = 0 THEN Encoder(onl, sts[1])
    ELSE Predictor(p, Unroll(onl, p, sts, acts, k - 1), acts[k])

(* C2: forward returns exactly T latents in order; latent 0 is the online  *)
(* encoder applied to frame 0, and latent k is the predictor applied to    *)
(* latent k-1 and action k-1, that is k successive predictor applications  *)
(* to the initial encoding; no frame but frame 0 is encoded.  (Sequences   *)
(* here are indexed from 1.)                                               *)
C2_ForwardIsAutoregressiveRollout ==
    lastOp.name = "forward" =>
        /\ Len(predictions) = Len(states)
        /\ Len(actions) = Len(states) - 1
        /\ predictions[1] = Encoder(online_encoder, states[1])
        /\ \A k \in 2..Len(states) :
              /\ predictions[k] = Predictor(predictor, predictions[k - 1], actions[k - 1])
              /\ predictions[k] = Unroll(online_encoder, predictor, states, actions, k - 1)
        /\ encCalls = <<1>>

(* A forward pass over three frames in which the later frames differ from  *)
(* the first and the predictor has moved the latent twice.                 *)
C2_Witness ==
    /\ lastOp.name = "forward"
    /\ Len(states) = 3
    /\ states[2] # states[1]
    /\ actions[1] # actions[2]
    /\ predictions[2] # predictions[1]
    /\ predictions[3] # predictions[2]
    /\ Encoder(online_encoder, states[2]) # Encoder(online_encoder, states[1])

SyncReturned == lastOp'.name = "_update_target_encoder" /\ err' = "none"
                /\ nOps' = nOps + 1

(* C3: one call of the sync with coefficient tau replaces every target     *)
(* parameter, paired in order with its online parameter, by                *)
(* tau*old_target + (1-tau)*online (to the precision of the number         *)
(* representation; 2.0, 0.0, 0.9 gives 1.8), and leaves the online encoder *)
(* and the predictor unchanged.                                            *)
C3_SyncIsEma ==
    [][SyncReturned =>
        /\ Len(target_encoder') = Len(target_encoder)
        /\ \A i \in 1..Len(target_encoder) :
              LET exact == lastOp'.tau * target_encoder[i]
                           + (10 - lastOp'.tau) * online_encoder[i]
              IN  /\ 10 * target_encoder'[i] <= exact
                  /\ exact < 10 * target_encoder'[i] + 10
                  /\ (target_encoder[i] = 20 /\ online_encoder[i] = 0
                      /\ lastOp'.tau = 9) => target_encoder'[i] = 18
        /\ online_encoder' = online_encoder
        /\ predictor' = predictor]_vars

(* The sync with tau = 0.9 has just taken a target parameter from 2.0      *)
(* towards an online parameter of 0.0.                                     *)
C3_Witness ==
    /\ lastOp = Op("_update_target_encoder", 9)
    /\ err = "none"
    /\ online_encoder = <<0, 10>>
    /\ target_encoder = <<18, 1>>

PartiallySynced(pre, post, onl, tau) ==
    \E i, j \in 1..Len(pre) :
        /\ post[i] = EmaPair(pre[i], onl[i], tau)
        /\ post[i] # pre[i]
        /\ post[j] = pre[j]
        /\ pre[j] # EmaPair(pre[j], onl[j], tau)

(* C9: a sync interrupted at any point never leaves the target encoder     *)
(* with some pairs updated and others still at their pre-sync values.      *)
C9_NeverPartiallySynced ==
    [][(lastOp'.name = "_update_target_encoder" /\ nOps' = nOps + 1)
        => ~PartiallySynced(target_encoder, target_encoder', online_encoder,
                            lastOp'.tau)]_vars

----------------------------------------------------------------------------
(* Properties of the training entry points *)

(* C5: every batch iteration of both entry points runs forward, loss,      *)
(* backward, clipping, optimizer step and target sync, the sync being      *)
(* performed exactly once per optimizer step, and every model operation    *)
(* the loop invokes is one JEPAModel provides: each batch fetched has had  *)
(* its optimizer step and its sync when the entry point ends.              *)
C5_SyncOncePerStep ==
    /\ invoked \subseteq JEPAModelAttrs
    /\ pc = "terminated" => (stepCount = fetched /\ syncCount = stepCount)

(* C7: each entry point terminates only when the configured epoch count is *)
(* exhausted: it has processed every batch of every epoch and reached the  *)
(* final model-save step.                                                  *)
C7_TerminatesAfterAllEpochs ==
    pc = "terminated" =>
        /\ err = "none"
        /\ fetched = numEpochs * loaderLen
        /\ reachedSave

RECURSIVE MinAvg(_)
MinAvg(s) ==
    IF s = <<>> THEN <<1, 0>>
    ELSE LET m == MinAvg(SubSeq(s, 1, Len(s) - 1))
             a == s[Len(s)]
         IN  IF a[1] * m[2] < m[1] * a[2] THEN a ELSE m

----------------------------------------------------------------------------
(* Properties of the loss functions *)

Degenerate ==
    \/ call.fn = "vicreg_loss" /\ Len(call.args[1]) <= 1
    \/ call.fn = "je_loss" /\ Len(call.args[1]) <= 1

(* C6: a loss function given a statistics dimension of size <= 1 ends in a *)
(* precondition error or a special-cased value, never in a loss computed   *)
(* from a division by size - 1 = 0.                                        *)
C6_DegenerateSizeIsGuarded ==
    (Degenerate /\ result.status # "pending") =>
        \/ result.status = "raised"
        \/ result.value.k = "fin"

(* The entries of x off its diagonal, row by row. *)
RECURSIVE OffDiagonalFrom(_, _)
OffDiagonalFrom(x, k) ==
    LET n == Len(x)
        i == ((k - 1) \div n) + 1
        j == ((k - 1) % n) + 1
    IN  IF k > n * n THEN <<>>
        ELSE (IF i # j THEN <<x[i][j]>> ELSE <<>>) \o OffDiagonalFrom(x, k + 1)

IsDiagonal(x) == \A i, j \in 1..Len(x) : i # j => x[i][j] = 0

(* C8: for an n x n matrix, n >= 2, off_diagonal returns exactly the       *)
(* n*(n-1) entries whose row and column differ, each once, in row-major    *)
(* order: all zeros for a diagonal matrix, 6 entries for a 3 x 3 matrix.   *)
C8_OffDiagonalEntries ==
    (call.fn = "off_diagonal" /\ result.status = "returned"
     /\ Len(call.args[1]) >= 2) =>
        LET x == call.args[1]
            n == Len(x)
        IN  /\ result.value = OffDiagonalFrom(x, 1)
            /\ Len(result.value) = n * (n - 1)
            /\ n = 3 => Len(result.value) = 6
            /\ IsDiagonal(x) => \A k \in 1..Len(result.value) : result.value[k] = 0

(* off_diagonal has returned the six entries of a 3 x 3 matrix whose       *)
(* diagonal is 1, 0, 1 and whose other entries are 0, 1, 1, 0, 0, 1.       *)
C8_Witness ==
    /\ call.fn = "off_diagonal"
    /\ result.status = "returned"
    /\ call.args[1] = <<<<1, 0, 1>>, <<1, 0, 0>>, <<0, 1, 1>>>>
    /\ result.value = <<0, 1, 1, 0, 0, 1>>

====
